---- MODULE Spec2Model ----
(***************************************************************************)
(* Model of pdfanalyzer/__init__.py: Span, Fragment and PDFAnalyzer.       *)
(*                                                                         *)
(* A text is a sequence of one-character strings, so that joining,         *)
(* prefix matching and exact comparison are computed and not assumed.      *)
(* An optional value (Fragment.text, the `end` argument) is <<>> for       *)
(* Python's None and <<v>> for a value v.  A Python list holding the       *)
(* element of index i keeps it at position i + 1 of the sequence.          *)
(***************************************************************************)
EXTENDS Integers, Sequences, FiniteSets, TLC

VARIABLES phase, spans, _fragments, call, result

vars == <<phase, spans, _fragments, call, result>>

\* Longest span sequence handed to the constructor.
MaxSpans == 3
\* Index arguments range over -MaxIdx .. MaxIdx.
MaxIdx == 2

None == <<>>
Some(v) == <<v>>

-----------------------------------------------------------------------------
(* Texts *)

Hello == <<"H", "e", "l", "l", "o">>
World == <<" ", "W", "o", "r", "l", "d">>
Title == <<"T", "i", "t", "l", "e">>
LinkA == <<"h", "t", "t", "p", "s", ":", "/", "/", "a">>
LinkX == <<"h", "t", "t", "p", ":", "/", "/", "x">>
PathB == <<"/", "b">>
LinkAB == LinkA \o PathB
HelloWorld == <<"H", "e", "l", "l", "o", " ", "W", "o", "r", "l", "d">>
HelloSpaceWorld == <<"H", "e", "l", "l", "o", " ", " ", "W", "o", "r", "l", "d">>

-----------------------------------------------------------------------------
(* Span *)

Span(font_size, font_family, text_color, text) ==
    [font_size |-> font_size, font_family |-> font_family,
     text_color |-> text_color, text |-> text]

\* Mutation: the font family is left out of the comparison.
has_equal_metadata_no_family(self, other) ==
    /\ self.font_size = other.font_size
    /\ self.text_color = other.text_color

has_equal_metadata(self, other) ==
    /\ self.font_size = other.font_size
    /\ self.font_family = other.font_family
    /\ self.text_color = other.text_color

\* The colour join_hyperlinks compares with ("1544191 = blue").
HYPERLINK_COLOR == 1544191

\* The spans a document is made of.
SpanPool ==
    { Span(12, "Arial", 0, Hello),
      Span(12, "Arial", 0, World),
      Span(14, "Arial", 0, Title),
      Span(12, "Arial", HYPERLINK_COLOR, LinkA),
      Span(12, "Arial", HYPERLINK_COLOR, PathB),
      Span(12, "Times", 0, LinkX) }

SpanSeqs == UNION { [1..n -> SpanPool] : n \in 0..MaxSpans }

\* The texts get_index_by_text is asked for.
Queries == { Hello, PathB, LinkAB }

Starts == (0 - MaxIdx)..MaxIdx
Ends == {None} \cup { Some(e) : e \in Starts }

-----------------------------------------------------------------------------
(* Python built-ins the code relies on *)

Return(v) == [kind |-> "ok", value |-> v]
Raise(e) == [kind |-> e, value |-> None]

\* str.join
RECURSIVE Join(_, _)
Join(join_str, texts) ==
    IF texts = <<>> THEN <<>>
    ELSE IF Len(texts) = 1 THEN texts[1]
    ELSE texts[1] \o join_str \o Join(join_str, Tail(texts))

\* list[index]: a negative index counts from the end.
ValidIndex(n, index) == (0 - n) <= index /\ index < n
NormIndex(n, index) == IF index < 0 THEN index + n ELSE index

\* slice(start, end).indices(n) for the default step.
SliceBound(n, bound, default) ==
    IF bound = None THEN default
    ELSE IF bound[1] < 0 THEN (IF bound[1] + n < 0 THEN 0 ELSE bound[1] + n)
    ELSE (IF bound[1] > n THEN n ELSE bound[1])

\* The list indices list[start:end] selects.
SliceIndices(n, start, end) ==
    { i \in 0..(n - 1) : SliceBound(n, start, 0) <= i /\ i < SliceBound(n, end, n) }

\* list[start:end]
Slice(list, start, end) ==
    SubSeq(list, SliceBound(Len(list), start, 0) + 1, SliceBound(Len(list), end, Len(list)))

StartsWith(text, prefix) ==
    Len(text) >= Len(prefix) /\ SubSeq(text, 1, Len(prefix)) = prefix

\* HYPERLINK_PATTERN.match(text): ^(http|https):// anchored at the start.
HYPERLINK_PATTERN(text) ==
    \E scheme \in { <<"h", "t", "t", "p">>, <<"h", "t", "t", "p", "s">> } :
        StartsWith(text, scheme \o <<":", "/", "/">>)

-----------------------------------------------------------------------------
(* Fragment *)

Fragment(index, fragment, font_size, font_family, text_color) ==
    [index |-> index, spans |-> fragment, font_size |-> font_size,
     font_family |-> font_family, text_color |-> text_color, text |-> None]

\* Mutation: the separator is ignored.
to_string_no_separator(self, join_str) ==
    Join(<<>>, [i \in 1..Len(self.spans) |-> self.spans[i].text])

to_string(self, join_str) ==
    Join(join_str, [i \in 1..Len(self.spans) |-> self.spans[i].text])

\* `fragment.text or fragment.to_string()`
TextOr(fragment) ==
    IF fragment.text # None /\ fragment.text[1] # <<>>
    THEN fragment.text[1]
    ELSE to_string(fragment, <<" ">>)

-----------------------------------------------------------------------------
(* PDFAnalyzer.convert_to_fragments *)

\* Mutation: the run is not cleared when a fragment is closed.
NextRun_no_clear(fragment, current, differs) ==
    Append(fragment, current)

\* `fragment.clear()` under the condition, then `fragment.append(current)`.
NextRun(fragment, current, differs) ==
    IF differs THEN <<current>> ELSE Append(fragment, current)

RECURSIVE ConvertLoop(_, _, _, _, _)
ConvertLoop(rest, previous, fragment, index, fragments) ==
    IF rest = <<>>
    THEN Append(fragments,
                Fragment(index, fragment, previous.font_size,
                         previous.font_family, previous.text_color))
    ELSE LET current == Head(rest)
             differs == ~has_equal_metadata(current, previous)
         IN  ConvertLoop(Tail(rest), current,
                         NextRun(fragment, current, differs),
                         IF differs THEN index + 1 ELSE index,
                         IF differs
                         THEN Append(fragments,
                                     Fragment(index, fragment, previous.font_size,
                                              previous.font_family, previous.text_color))
                         ELSE fragments)

\* spans[0] of an empty list raises IndexError before anything is built.
convert_to_fragments(s) ==
    IF s = <<>> THEN Raise("IndexError")
    ELSE Return(ConvertLoop(Tail(s), s[1], <<s[1]>>, 0, <<>>))

-----------------------------------------------------------------------------
(* PDFAnalyzer queries *)

get_fragments(fragments, start, end) ==
    Return(Slice(fragments, Some(start), end))

get_fragment(fragments, index) ==
    IF ValidIndex(Len(fragments), index)
    THEN Return(fragments[NormIndex(Len(fragments), index) + 1])
    ELSE Raise("IndexError")

\* Mutation: the colour is not compared.
IsHyperlink_any_color(fragment) ==
    HYPERLINK_PATTERN(fragment.spans[1].text)

\* Mutation: the first span's text is not matched.
IsHyperlink_any_text(fragment) ==
    fragment.text_color = HYPERLINK_COLOR

IsHyperlink(fragment) ==
    /\ fragment.text_color = HYPERLINK_COLOR
    /\ HYPERLINK_PATTERN(fragment.spans[1].text)

\* Mutation: the joined text is appended to the text already set.
HyperlinkText_appending(fragment) ==
    (IF fragment.text = None THEN <<>> ELSE fragment.text[1]) \o to_string(fragment, <<>>)

HyperlinkText(fragment) == to_string(fragment, <<>>)

\* The fragment list join_hyperlinks leaves.
join_hyperlinks(fragments, start, end) ==
    [p \in 1..Len(fragments) |->
        IF (p - 1) \in SliceIndices(Len(fragments), Some(start), end)
           /\ IsHyperlink(fragments[p])
        THEN [fragments[p] EXCEPT !.text = Some(HyperlinkText(fragments[p]))]
        ELSE fragments[p]]

RECURSIVE ParagraphLoop(_, _, _, _)
ParagraphLoop(rest, previous, paragraph, break_index) ==
    IF rest = <<>> THEN <<Join(<<>>, paragraph), break_index>>
    ELSE LET current == Head(rest)
         IN  IF current.font_size # previous.font_size
             THEN <<Join(<<>>, paragraph), current.index>>
             ELSE ParagraphLoop(Tail(rest), current,
                                Append(paragraph, TextOr(current)), break_index)

\* Mutation: the break index follows the last fragment taken into the paragraph.
RECURSIVE ParagraphLoop_last(_, _, _, _)
ParagraphLoop_last(rest, previous, paragraph, break_index) ==
    IF rest = <<>> THEN <<Join(<<>>, paragraph), previous.index>>
    ELSE LET current == Head(rest)
         IN  IF current.font_size # previous.font_size
             THEN <<Join(<<>>, paragraph), current.index>>
             ELSE ParagraphLoop_last(Tail(rest), current,
                                     Append(paragraph, TextOr(current)), break_index)

get_paragraph_last(fragments, start, end) ==
    IF ~ValidIndex(Len(fragments), start) THEN Raise("IndexError")
    ELSE LET previous == fragments[NormIndex(Len(fragments), start) + 1]
         IN  Return(ParagraphLoop_last(Slice(fragments, Some(start + 1), end), previous,
                                       <<TextOr(previous)>>, previous.index))

get_paragraph(fragments, start, end) ==
    IF ~ValidIndex(Len(fragments), start) THEN Raise("IndexError")
    ELSE LET previous == fragments[NormIndex(Len(fragments), start) + 1]
         IN  Return(ParagraphLoop(Slice(fragments, Some(start + 1), end), previous,
                                  <<TextOr(previous)>>, previous.index))

\* Mutation: the last matching span of the fragment is reported.
FindSpan_last(fragment, text) ==
    LET hits == { i \in 0..(Len(fragment.spans) - 1) : fragment.spans[i + 1].text = text }
    IN  IF hits = {} THEN -1 ELSE CHOOSE i \in hits : \A j \in hits : j <= i

\* The inner loop: the first i with span.text == text, -1 when it runs out.
RECURSIVE FindSpanFrom(_, _, _)
FindSpanFrom(fragment, text, i) ==
    IF i >= Len(fragment.spans) THEN -1
    ELSE IF fragment.spans[i + 1].text = text THEN i
    ELSE FindSpanFrom(fragment, text, i + 1)

FindSpan(fragment, text) == FindSpanFrom(fragment, text, 0)

RECURSIVE IndexLoop(_, _)
IndexLoop(rest, text) ==
    IF rest = <<>> THEN <<-1, -1>>
    ELSE LET i == FindSpan(Head(rest), text)
         IN  IF i # -1 THEN <<Head(rest).index, i>> ELSE IndexLoop(Tail(rest), text)

get_index_by_text(fragments, text, start, end) ==
    Return(IndexLoop(Slice(fragments, Some(start), end), text))

-----------------------------------------------------------------------------
(* The analyzer and its caller *)

NoCall == [op |-> "none", text |-> None, start |-> 0, end |-> None]
Call(op, text, start, end) == [op |-> op, text |-> text, start |-> start, end |-> end]

Init ==
    /\ phase = "new"
    /\ spans = <<>>
    /\ _fragments = <<>>
    /\ call = NoCall
    /\ result = Return(None)

\* PDFAnalyzer(path): s is what extract_spans returned for the document.
Construct(s) ==
    /\ phase = "new"
    /\ spans' = s
    /\ call' = Call("__init__", None, 0, None)
    /\ result' = convert_to_fragments(s)
    /\ IF result'.kind = "ok"
       THEN /\ _fragments' = result'.value
            /\ phase' = "ready"
       ELSE /\ _fragments' = <<>>
            /\ phase' = "failed"

GetFragments(start, end) ==
    /\ phase = "ready"
    /\ call' = Call("get_fragments", None, start, end)
    /\ result' = get_fragments(_fragments, start, end)
    /\ phase' = "returned"
    /\ UNCHANGED <<spans, _fragments>>

GetFragment(index) ==
    /\ phase = "ready"
    /\ call' = Call("get_fragment", None, index, None)
    /\ result' = get_fragment(_fragments, index)
    /\ phase' = "returned"
    /\ UNCHANGED <<spans, _fragments>>

JoinHyperlinks(start, end) ==
    /\ phase = "ready"
    /\ call' = Call("join_hyperlinks", None, start, end)
    /\ _fragments' = join_hyperlinks(_fragments, start, end)
    /\ result' = Return(None)
    /\ phase' = "returned"
    /\ UNCHANGED spans

GetParagraph(start, end) ==
    /\ phase = "ready"
    /\ call' = Call("get_paragraph", None, start, end)
    /\ result' = get_paragraph(_fragments, start, end)
    /\ phase' = "returned"
    /\ UNCHANGED <<spans, _fragments>>

GetIndexByText(text, start, end) ==
    /\ phase = "ready"
    /\ call' = Call("get_index_by_text", Some(text), start, end)
    /\ result' = get_index_by_text(_fragments, text, start, end)
    /\ phase' = "returned"
    /\ UNCHANGED <<spans, _fragments>>

\* The caller takes the outcome of its call and is free to call again.
Continue ==
    /\ phase = "returned"
    /\ phase' = "ready"
    /\ call' = NoCall
    /\ result' = Return(None)
    /\ UNCHANGED <<spans, _fragments>>

Next ==
    \/ \E s \in SpanSeqs : Construct(s)
    \/ \E start \in Starts, end \in Ends : GetFragments(start, end)
    \/ \E index \in Starts : GetFragment(index)
    \/ \E start \in Starts, end \in Ends : JoinHyperlinks(start, end)
    \/ \E start \in Starts, end \in Ends : GetParagraph(start, end)
    \/ \E text \in Queries, start \in Starts, end \in Ends : GetIndexByText(text, start, end)
    \/ Continue

Spec == Init /\ [][Next]_vars

-----------------------------------------------------------------------------
(* Properties *)

Min(S) == CHOOSE x \in S : \A y \in S : x <= y
Max(S) == CHOOSE x \in S : \A y \in S : y <= x

Built == call.op = "__init__" /\ result.kind = "ok"
Returned(op) == phase = "returned" /\ call.op = op

\* The spans of a fragment list, one fragment after the other.
RECURSIVE FlattenSpans(_)
FlattenSpans(fragments) ==
    IF fragments = <<>> THEN <<>>
    ELSE Head(fragments).spans \o FlattenSpans(Tail(fragments))

\* The texts of a span list, one after the other.
RECURSIVE ConcatTexts(_)
ConcatTexts(list) ==
    IF list = <<>> THEN <<>> ELSE Head(list).text \o ConcatTexts(Tail(list))

Metadata(x) == <<x.font_size, x.font_family, x.text_color>>

\* C1: for a non-empty span sequence, the span lists of the fragments that
\* convert_to_fragments returns, concatenated in fragment order, are the
\* input sequence itself.
C1_FragmentsPartitionSpans ==
    (call.op = "__init__" /\ spans # <<>>) =>
        /\ result.kind = "ok"
        /\ FlattenSpans(result.value) = spans

C1_Witness ==
    /\ Built
    /\ Len(spans) = 3
    /\ Len(result.value) = 2
    /\ Len(result.value[1].spans) = 2

\* C2: every fragment convert_to_fragments returns is non-empty, its spans
\* all carry the fragment's own font size, font family and colour, and two
\* adjacent fragments never carry the same three.
C2_MaximalRuns ==
    Built =>
        /\ \A p \in 1..Len(result.value) :
              /\ result.value[p].spans # <<>>
              /\ \A q \in 1..Len(result.value[p].spans) :
                    Metadata(result.value[p].spans[q]) = Metadata(result.value[p])
        /\ \A p \in 1..(Len(result.value) - 1) :
              Metadata(result.value[p]) # Metadata(result.value[p + 1])

C2_Witness ==
    /\ Built
    /\ Len(spans) = 3
    /\ Len(result.value) = 2
    /\ result.value[1].font_size = result.value[2].font_size
    /\ result.value[1].text_color = result.value[2].text_color
    /\ result.value[1].font_family # result.value[2].font_family

\* The fragment get_paragraph starts from, the indices it scans after it and
\* those of them whose font size is not the starting fragment's.
ParagraphStart == NormIndex(Len(_fragments), call.start)
ParagraphScanned == SliceIndices(Len(_fragments), Some(call.start + 1), call.end)
ParagraphChanged ==
    { i \in ParagraphScanned :
        _fragments[i + 1].font_size # _fragments[ParagraphStart + 1].font_size }

HasText(fragment, text) ==
    \E q \in 1..Len(fragment.spans) : fragment.spans[q].text = text
IndexHits ==
    { i \in SliceIndices(Len(_fragments), Some(call.start), call.end) :
        HasText(_fragments[i + 1], call.text[1]) }

\* C4: get_index_by_text returns (-1, -1) when no span of a fragment of
\* _fragments[start:end] has exactly the query as its text, and otherwise
\* the smallest such fragment index with the smallest position of such a
\* span in it; the override text of a fragment is not looked at.
C4_FirstExactMatch ==
    Returned("get_index_by_text") =>
        /\ result.kind = "ok"
        /\ result.value =
              IF IndexHits = {} THEN <<-1, -1>>
              ELSE LET f == Min(IndexHits)
                   IN  <<f, Min({ q \in 0..(Len(_fragments[f + 1].spans) - 1) :
                                     _fragments[f + 1].spans[q + 1].text = call.text[1] })>>

C4_Witness ==
    /\ Returned("get_index_by_text")
    /\ call.start = 1
    /\ result.value = <<1, 0>>
    /\ Cardinality({ q \in 1..Len(_fragments[2].spans) :
                      _fragments[2].spans[q].text = call.text[1] }) = 2

\* A fragment of the range has the query as its override text and no span
\* with that text: nothing is found.
C4_OverrideNotSearched ==
    /\ Returned("get_index_by_text")
    /\ \E i \in SliceIndices(Len(_fragments), Some(call.start), call.end) :
          _fragments[i + 1].text = call.text
    /\ result.value = <<-1, -1>>

\* C5: join_hyperlinks(start, end) sets the override text of every fragment
\* of _fragments[start:end] whose colour is 1544191 and whose first span's
\* text starts with http:// or https:// to its spans' texts put end to end,
\* and leaves every other fragment as it was.
C5_JoinEffect ==
    [][(phase' = "returned" /\ call'.op = "join_hyperlinks") =>
          /\ Len(_fragments') = Len(_fragments)
          /\ \A p \in 1..Len(_fragments) :
                IF /\ (p - 1) \in SliceIndices(Len(_fragments), Some(call'.start), call'.end)
                   /\ _fragments[p].text_color = 1544191
                   /\ \/ StartsWith(_fragments[p].spans[1].text,
                                    <<"h", "t", "t", "p", ":", "/", "/">>)
                      \/ StartsWith(_fragments[p].spans[1].text,
                                    <<"h", "t", "t", "p", "s", ":", "/", "/">>)
                THEN _fragments'[p] =
                        [_fragments[p] EXCEPT !.text = Some(ConcatTexts(_fragments[p].spans))]
                ELSE _fragments'[p] = _fragments[p]]_vars

C5_Witness ==
    /\ Returned("join_hyperlinks")
    /\ Len(_fragments) = 2
    /\ _fragments[1].text = Some(LinkAB)
    /\ _fragments[2].text = None
    /\ HYPERLINK_PATTERN(_fragments[2].spans[1].text)

\* C6: a second join_hyperlinks(start, end) after the first leaves every
\* fragment's override text as the first call left it.
C6_JoinIdempotent ==
    Returned("join_hyperlinks") =>
        \A p \in 1..Len(_fragments) :
            join_hyperlinks(_fragments, call.start, call.end)[p].text = _fragments[p].text

C6_Witness ==
    /\ Returned("join_hyperlinks")
    /\ \E p \in 1..Len(_fragments) :
          /\ (p - 1) \in SliceIndices(Len(_fragments), Some(call.start), call.end)
          /\ Len(_fragments[p].spans) = 2
          /\ _fragments[p].text # None

\* C7 as stated: the constructor's convert_to_fragments, given no span,
\* fails reporting an empty document and builds no fragment.
C7_EmptyDocumentReported ==
    (call.op = "__init__" /\ spans = <<>>) =>
        /\ phase = "failed"
        /\ result.kind = "EmptyDocument"
        /\ _fragments = <<>>

\* C8 as stated: get_paragraph and get_fragment fail with an out-of-range
\* condition for every start or index outside 0 .. n-1, negative ones
\* included, and return nothing then.
C8_OutOfRangeFails ==
    (/\ phase = "returned"
     /\ call.op \in {"get_paragraph", "get_fragment"}
     /\ call.start \notin 0..(Len(_fragments) - 1)) =>
        result = Raise("IndexError")

\* C9: after construction and after any calls, the fragment list has the
\* length and the spans it was built with, the fragment at position i has
\* index i, and a fragment has an override text only if its colour is
\* 1544191 and its first span's text matches the hyperlink pattern.
C9_FragmentsStable ==
    (phase \in {"ready", "returned"}) =>
        /\ FlattenSpans(_fragments) = spans
        /\ Len(_fragments) = Len(convert_to_fragments(spans).value)
        /\ \A p \in 1..Len(_fragments) :
              /\ _fragments[p].index = p - 1
              /\ _fragments[p].spans = convert_to_fragments(spans).value[p].spans
              /\ Metadata(_fragments[p]) = Metadata(_fragments[p].spans[1])
              /\ _fragments[p].text # None =>
                    /\ _fragments[p].text_color = 1544191
                    /\ \/ StartsWith(_fragments[p].spans[1].text,
                                     <<"h", "t", "t", "p", ":", "/", "/">>)
                       \/ StartsWith(_fragments[p].spans[1].text,
                                     <<"h", "t", "t", "p", "s", ":", "/", "/">>)

C9_Witness ==
    /\ Returned("get_paragraph")
    /\ Len(_fragments) = 3
    /\ _fragments[2].text # None
    /\ _fragments[3].text = None

ExampleSpans ==
    << Span(12, "Arial", 0, Hello), Span(12, "Arial", 0, World),
       Span(14, "Arial", 0, Title) >>

\* The two fragments of the example, the first one's derived text being text.
ExampleFragments(text) ==
    /\ result.kind = "ok"
    /\ Len(result.value) = 2
    /\ result.value[1].index = 0
    /\ result.value[1].font_size = 12
    /\ result.value[1].text = None
    /\ to_string(result.value[1], <<" ">>) = text
    /\ result.value[2].index = 1
    /\ result.value[2].font_size = 14
    /\ result.value[2].text = None
    /\ to_string(result.value[2], <<" ">>) = Title

\* C10 as stated: the example's first fragment has the derived text
\* 'Hello World'.
C10_ExampleSingleSpace ==
    (call.op = "__init__" /\ spans = ExampleSpans) => ExampleFragments(HelloWorld)

\* C10: for the spans (12, Arial, 0, 'Hello'), (12, Arial, 0, ' World'),
\* (14, Arial, 0, 'Title') convert_to_fragments yields two fragments: index 0
\* of size 12 whose to_string() is 'Hello  World' (the separator and then the
\* second span's own leading space), and index 1 of size 14 whose to_string()
\* is 'Title'.
C10_Example ==
    (call.op = "__init__" /\ spans = ExampleSpans) => ExampleFragments(HelloSpaceWorld)

C10_Witness ==
    /\ phase = "ready"
    /\ call.op = "__init__"
    /\ spans = ExampleSpans
    /\ Len(_fragments) = 2

====
